---- MODULE Spec2Model ----
(***************************************************************************)
(* Model of core/config.py: the YAML loader, the recursive merger, the     *)
(* environment override builder, the strategy / rules loaders, the schema  *)
(* validation done when Settings is constructed and the process-wide      *)
(* accessor init_settings.                                                 *)
(*                                                                         *)
(* Python values are tagged records.  A str is a tuple of one-character    *)
(* strings, so that str(), split(","), float() and int() are computed and  *)
(* not assumed.  A number n stands for n / 100 (hundredths), which is      *)
(* enough for the fractions and the millisecond counts of the schema.      *)
(* Dictionaries live either inline (kind "dict") or in a heap of objects   *)
(* (kind "ref"); merge_configs runs on the heap, where copying and         *)
(* aliasing are visible.                                                   *)
(***************************************************************************)
EXTENDS Integers, Sequences, FiniteSets, TLC

VARIABLES
    heap,      \* merger: the dict objects
    mbase,     \* merger: address of the base argument
    mover,     \* merger: address of the override argument
    mres,      \* merger: the value returned
    mstate,    \* merger: "ready", "returned" or the exception raised
    world,     \* the files, directories and environment variables
    settings,  \* the module global `settings`
    pc,        \* per thread: where it is in init_settings
    arg,       \* per thread: the Environment argument of its call
    loc,       \* per thread: the value get_settings returned to it
    ret,       \* per thread: what its last call returned (None: nothing)
    exc,       \* per thread: what its last call raised (NoErr: nothing)
    calls,     \* per thread: the calls it has made
    run,       \* the last run of get_settings
    fresh,     \* the world is still as that run read it
    nruns,     \* how many times get_settings has run
    returned,  \* the ids of the Settings instances calls have returned
    edits,     \* how many times the world was changed
    lim        \* the limits on edits and calls of this exploration

mergeVars == <<heap, mbase, mover, mres, mstate>>

accVars == <<world, settings, pc, arg, loc, ret, exc, calls, run, fresh,
             nruns, returned, edits, lim>>

vars == <<heap, mbase, mover, mres, mstate, world, settings, pc, arg, loc,
          ret, exc, calls, run, fresh, nruns, returned, edits, lim>>

----------------------------------------------------------------------------
(* Python values *)

None == [k |-> "none"]

Str(s) == [k |-> "str", s |-> s]

Num(n) == [k |-> "num", n |-> n]

List(l) == [k |-> "list", l |-> l]

Dict(d) == [k |-> "dict", d |-> d]

Ref(a) == [k |-> "ref", a |-> a]

EmptyDict == <<>>

----------------------------------------------------------------------------
(* str: tuples of one-character strings *)

Comma == ","

s_stocks == <<"s", "t", "o", "c", "k", "s">>

s_crypto == <<"c", "r", "y", "p", "t", "o">>

s_forex == <<"f", "o", "r", "e", "x">>

s_commodities == <<"c", "o", "m", "m", "o", "d", "i", "t", "i", "e", "s">>

s_bonds == <<"b", "o", "n", "d", "s">>

s_alpaca == <<"a", "l", "p", "a", "c", "a">>

s_binance == <<"b", "i", "n", "a", "n", "c", "e">>

s_oanda == <<"o", "a", "n", "d", "a">>

s_polygon == <<"p", "o", "l", "y", "g", "o", "n">>

s_csv == <<"c", "s", "v">>

s_ftx == <<"f", "t", "x">>

s_DEBUG == <<"D", "E", "B", "U", "G">>

s_INFO == <<"I", "N", "F", "O">>

s_WARNING == <<"W", "A", "R", "N", "I", "N", "G">>

s_ERROR == <<"E", "R", "R", "O", "R">>

s_CRITICAL == <<"C", "R", "I", "T", "I", "C", "A", "L">>

s_TRACE == <<"T", "R", "A", "C", "E">>

s_None == <<"N", "o", "n", "e">>

Lower == <<"a", "b", "c", "d", "e", "f", "g", "h", "i", "j", "k", "l", "m",
           "n", "o", "p", "q", "r", "s", "t", "u", "v", "w", "x", "y", "z">>

Upper == <<"A", "B", "C", "D", "E", "F", "G", "H", "I", "J", "K", "L", "M",
           "N", "O", "P", "Q", "R", "S", "T", "U", "V", "W", "X", "Y", "Z">>

Digits == <<"0", "1", "2", "3", "4", "5", "6", "7", "8", "9">>

IndexIn(c, tbl) == CHOOSE i \in 1..Len(tbl) : tbl[i] = c

IsIn(c, tbl) == \E i \in 1..Len(tbl) : tbl[i] = c

\* str.upper()
str_upper(s) ==
    [i \in 1..Len(s) |-> IF IsIn(s[i], Lower) THEN Upper[IndexIn(s[i], Lower)]
                         ELSE s[i]]

\* str.split(","): the pieces between the commas, empty pieces included;
\* the empty string gives one empty piece.
RECURSIVE SplitFrom(_, _, _)
SplitFrom(s, cur, acc) ==
    IF s = <<>> THEN Append(acc, cur)
    ELSE IF Head(s) = Comma THEN SplitFrom(Tail(s), <<>>, Append(acc, cur))
    ELSE SplitFrom(Tail(s), Append(cur, Head(s)), acc)

str_split(s) == SplitFrom(s, <<>>, <<>>)

RECURSIVE JoinRepr(_)
\* repr() of a str without quotes or escapes in it, and of None
py_repr(v) ==
    IF v.k = "str" THEN <<"'">> \o v.s \o <<"'">> ELSE s_None

\* ", ".join(repr(x) for x in l)
JoinRepr(l) ==
    IF l = <<>> THEN <<>>
    ELSE IF Len(l) = 1 THEN py_repr(l[1])
    ELSE py_repr(l[1]) \o <<",", " ">> \o JoinRepr(Tail(l))

\* v.__str__() for the values trading.markets takes here: a str is itself,
\* None is "None", a list of str is its display "['a', 'b']".
py_str(v) ==
    IF v.k = "str" THEN v.s
    ELSE IF v.k = "list" THEN <<"[">> \o JoinRepr(v.l) \o <<"]">>
    ELSE s_None

RECURSIVE DigitsValue(_, _)
\* the number a run of decimal digits writes
DigitsValue(s, acc) ==
    IF s = <<>> THEN acc
    ELSE DigitsValue(Tail(s), 10 * acc + (IndexIn(Head(s), Digits) - 1))

AllDigits(s) == \A i \in 1..Len(s) : IsIn(s[i], Digits)

Unsigned(s) == IF s # <<>> /\ s[1] \in {"-", "+"} THEN Tail(s) ELSE s

Sign(s) == IF s # <<>> /\ s[1] = "-" THEN -1 ELSE 1

DotAt(s) == IF IsIn(".", s) THEN IndexIn(".", s) ELSE 0

\* the first two decimals, as hundredths
Hundredths(f) ==
    IF f = <<>> THEN 0
    ELSE IF Len(f) = 1 THEN 10 * DigitsValue(f, 0)
    ELSE DigitsValue(SubSeq(f, 1, 2), 0)

\* float(str), for the decimal notation [sign] digits [. digits]; anything
\* else (letters, the empty string, two dots) is a ValueError.
parse_float(s) ==
    LET u == Unsigned(s)
        d == DotAt(u)
        ip == IF d = 0 THEN u ELSE SubSeq(u, 1, d - 1)
        fp == IF d = 0 THEN <<>> ELSE SubSeq(u, d + 1, Len(u))
    IN IF AllDigits(ip) /\ AllDigits(fp) /\ (ip # <<>> \/ fp # <<>>)
       THEN [err |-> "none",
             n |-> Sign(s) * (100 * DigitsValue(ip, 0) + Hundredths(fp))]
       ELSE [err |-> "ValueError", n |-> 0]

\* int(str): [sign] digits, no decimal point
parse_int(s) ==
    LET u == Unsigned(s)
    IN IF AllDigits(u) /\ u # <<>>
       THEN [err |-> "none", n |-> Sign(s) * 100 * DigitsValue(u, 0)]
       ELSE [err |-> "ValueError", n |-> 0]

\* float(v): a str is parsed, a number is kept, None / list / dict raise
py_float(v) ==
    IF v.k = "str" THEN parse_float(v.s)
    ELSE IF v.k = "num" THEN [err |-> "none", n |-> v.n]
    ELSE [err |-> "TypeError", n |-> 0]

\* int(v): a str is parsed, a number is truncated towards zero
py_int(v) ==
    IF v.k = "str" THEN parse_int(v.s)
    ELSE IF v.k = "num"
    THEN [err |-> "none",
          n |-> IF v.n >= 0 THEN 100 * (v.n \div 100)
                ELSE -(100 * ((-v.n) \div 100))]
    ELSE [err |-> "TypeError", n |-> 0]

----------------------------------------------------------------------------
(* The heap of dict objects: a sequence of functions from key to value, an *)
(* object's address being its index.  A value of kind "dict" is a literal  *)
(* (a parsed document, a dict display); Alloc builds its objects.          *)

RECURSIVE Alloc(_, _)
RECURSIVE AllocFields(_, _, _, _)
Alloc(h, v) ==
    IF v.k = "dict" THEN AllocFields(h, v.d, DOMAIN v.d, EmptyDict)
    ELSE [h |-> h, v |-> v]

AllocFields(h, d, ks, acc) ==
    IF ks = {} THEN [h |-> Append(h, acc), v |-> Ref(Len(h) + 1)]
    ELSE LET key == CHOOSE x \in ks : TRUE
             r == Alloc(h, d[key])
         IN AllocFields(r.h, d, ks \ {key}, (key :> r.v) @@ acc)

RECURSIVE Deref(_, _)
Deref(h, v) ==
    IF v.k = "ref"
    THEN Dict([key \in DOMAIN h[v.a] |-> Deref(h, h[v.a][key])])
    ELSE v

RECURSIVE Reach(_, _)
Reach(h, v) ==
    IF v.k = "ref"
    THEN {v.a} \cup UNION {Reach(h, h[v.a][key]) : key \in DOMAIN h[v.a]}
    ELSE {}

----------------------------------------------------------------------------
(* merge_configs *)

\* C8 mutant: `result = base` instead of `result = base.copy()`.
DictCopy_alias(h, a) == [h |-> h, r |-> a]

\* result = base.copy(): a new object holding the same key -> value pairs
\* (a shallow copy: nested dicts are shared with base).
DictCopy(h, a) == [h |-> Append(h, h[a]), r |-> Len(h) + 1]

\* `isinstance(value, dict) and key in result`, result being a dict.
MergeRecurses(value, res, key) == value.k = "ref" /\ key \in DOMAIN res

RECURSIVE merge_configs(_, _, _)
RECURSIVE MergeLoop(_, _, _, _)
\* merge_configs(base, override) on heap h: bv is the value passed as base,
\* oa the address of the override dict.  Gives the heap after the call, the
\* value returned and the exception raised ("none" when it returns).
\*   a str, a number or None as base has no copy()   -> AttributeError
\*   a list as base is copied, and `result[key] = ..` with a str key then
\*   raises TypeError; with an empty override the loop body never runs and
\*   the copy of the list is returned.
merge_configs(h, bv, oa) ==
    IF bv.k = "ref"
    THEN LET c == DictCopy(h, bv.a) IN MergeLoop(c.h, c.r, oa, DOMAIN h[oa])
    ELSE IF bv.k = "list"
    THEN IF DOMAIN h[oa] = {} THEN [h |-> h, v |-> bv, err |-> "none"]
         ELSE [h |-> h, v |-> None, err |-> "TypeError"]
    ELSE [h |-> h, v |-> None, err |-> "AttributeError"]

\* for key, value in override.items(): ...; return result
MergeLoop(h, r, oa, ks) ==
    IF ks = {} THEN [h |-> h, v |-> Ref(r), err |-> "none"]
    ELSE LET key == CHOOSE x \in ks : TRUE
             value == h[oa][key]
         IN IF MergeRecurses(value, h[r], key)
            THEN LET m == merge_configs(h, h[r][key], value.a)
                 IN IF m.err # "none" THEN m
                    ELSE MergeLoop([m.h EXCEPT ![r] = (key :> m.v) @@ m.h[r]],
                                   r, oa, ks \ {key})
            ELSE MergeLoop([h EXCEPT ![r] = (key :> value) @@ h[r]],
                           r, oa, ks \ {key})

----------------------------------------------------------------------------
(* Exceptions: the type raised and the path of the file its message names  *)
(* (NoPath when the message names no file).  A path is the tuple of its    *)
(* pieces.                                                                 *)

NoPath == <<>>

NoErr == [type |-> "none", file |-> NoPath]

Exc(type, file) == [type |-> type, file |-> file]

Ok(v) == [v |-> v, err |-> "none"]

Raise(type) == [v |-> None, err |-> type]

RECURSIVE FirstErr(_)
\* the first exception met in evaluation order
FirstErr(errs) ==
    IF errs = <<>> THEN "none"
    ELSE IF Head(errs) # "none" THEN Head(errs)
    ELSE FirstErr(Tail(errs))

----------------------------------------------------------------------------
(* load_yaml *)

MissingFile == [st |-> "missing"]

MalformedFile == [st |-> "malformed"]

YamlFile(doc) == [st |-> "ok", doc |-> doc]

\* the values `x or {}` replaces by {}
Falsy(v) ==
    \/ v.k = "none"
    \/ v.k = "str" /\ v.s = <<>>
    \/ v.k = "num" /\ v.n = 0
    \/ v.k = "list" /\ v.l = <<>>
    \/ v.k = "dict" /\ DOMAIN v.d = {}

\* C6 mutant: FileNotFoundError is not caught.
load_yaml_nocatch(file, path) ==
    IF file.st = "missing"
    THEN [v |-> None, err |-> Exc("FileNotFoundError", path)]
    ELSE IF file.st = "malformed"
    THEN [v |-> None, err |-> Exc("ValueError", path)]
    ELSE [v |-> IF Falsy(file.doc) THEN Dict(EmptyDict) ELSE file.doc,
          err |-> NoErr]

\* load_yaml(file_path): the document, {} for an empty document and for a
\* missing file, ValueError naming the file for malformed YAML.
load_yaml(file, path) ==
    IF file.st = "missing" THEN [v |-> Dict(EmptyDict), err |-> NoErr]
    ELSE IF file.st = "malformed"
    THEN [v |-> None, err |-> Exc("ValueError", path)]
    ELSE [v |-> IF Falsy(file.doc) THEN Dict(EmptyDict) ELSE file.doc,
          err |-> NoErr]

----------------------------------------------------------------------------
(* merge_configs called on two values: the arguments become heap objects,  *)
(* the merger runs, the result is read back.                               *)

merge_values(bv, ov) ==
    IF bv.k \notin {"dict", "list"} THEN Raise("AttributeError")
    ELSE IF ov.k # "dict" THEN Raise("AttributeError")
    ELSE LET ab == Alloc(<<>>, bv)
             ao == Alloc(ab.h, ov)
             m == merge_configs(ao.h, ab.v, ao.v.a)
         IN [v |-> Deref(m.h, m.v), err |-> m.err]

----------------------------------------------------------------------------
(* The environment override builder (get_settings, the dict display).      *)

v_APP_NAME == <<"A", "P", "P", "_", "N", "A", "M", "E">>

v_LOG_LEVEL == <<"L", "O", "G", "_", "L", "E", "V", "E", "L">>

v_REDIS_URL == <<"R", "E", "D", "I", "S", "_", "U", "R", "L">>

v_MARKETS == <<"M", "A", "R", "K", "E", "T", "S">>

v_MAX_POSITION_SIZE == <<"M", "A", "X", "_", "P", "O", "S", "I", "T", "I", "O",
                         "N", "_", "S", "I", "Z", "E">>

v_MAX_DRAWDOWN == <<"M", "A", "X", "_", "D", "R", "A", "W", "D", "O", "W", "N">>

v_VAR_LIMIT == <<"V", "A", "R", "_", "L", "I", "M", "I", "T">>

v_MAX_LATENCY_MS == <<"M", "A", "X", "_", "L", "A", "T", "E", "N", "C", "Y",
                      "_", "M", "S">>

x_API_KEY == <<"_", "A", "P", "I", "_", "K", "E", "Y">>

x_SECRET_KEY == <<"_", "S", "E", "C", "R", "E", "T", "_", "K", "E", "Y">>

Unset == [k |-> "unset"]

IsSet(env, name) == name \in DOMAIN env /\ env[name].k = "str"

\* C3 mutant: the variable is looked up but the fallback is returned.
getenv_ignored(env, name, dflt) == dflt

\* os.getenv(name, default), default being evaluated first
getenv(env, name, dflt) ==
    IF dflt.err # "none" THEN dflt
    ELSE IF IsSet(env, name) THEN Ok(env[name])
    ELSE dflt

\* d.get(key, default), d itself being the result of an earlier .get
Get(r, key, dflt) ==
    IF r.err # "none" THEN r
    ELSE IF r.v.k # "dict" THEN Raise("AttributeError")
    ELSE Ok(IF key \in DOMAIN r.v.d THEN r.v.d[key] ELSE dflt)

\* float(..) of an expression that may itself have raised
ConvFloat(r) ==
    IF r.err # "none" THEN r
    ELSE LET c == py_float(r.v)
         IN IF c.err # "none" THEN Raise(c.err) ELSE Ok(Num(c.n))

\* int(..) of an expression that may itself have raised
ConvInt(r) ==
    IF r.err # "none" THEN r
    ELSE LET c == py_int(r.v)
         IN IF c.err # "none" THEN Raise(c.err) ELSE Ok(Num(c.n))

\* os.getenv("MARKETS", ...).__str__().split(",")
MarketsOf(r) ==
    IF r.err # "none" THEN r
    ELSE LET parts == str_split(py_str(r.v))
         IN Ok(List([i \in 1..Len(parts) |-> Str(parts[i])]))

\* one element of the providers comprehension
ProviderOverride(env, p) ==
    IF p.k # "dict" THEN Raise("TypeError")
    ELSE IF "name" \notin DOMAIN p.d THEN Raise("KeyError")
    ELSE IF p.d["name"].k # "str" THEN Raise("AttributeError")
    ELSE LET up == str_upper(p.d["name"].s)
             ak == getenv(env, up \o x_API_KEY, Get(Ok(p), "api_key", None))
             sk == getenv(env, up \o x_SECRET_KEY, Get(Ok(p), "secret_key", None))
         IN Ok(Dict(("api_key" :> ak.v) @@ ("secret_key" :> sk.v) @@ p.d))

ProvidersOverride(env, r) ==
    IF r.err # "none" THEN r
    ELSE IF r.v.k # "list" THEN Raise("TypeError")
    ELSE LET ps == [i \in 1..Len(r.v.l) |-> ProviderOverride(env, r.v.l[i])]
             e == FirstErr([i \in 1..Len(ps) |-> ps[i].err])
         IN IF e # "none" THEN Raise(e)
            ELSE Ok(List([i \in 1..Len(ps) |-> ps[i].v]))

\* the override tree of get_settings, or the first exception its
\* construction raises
build_override(config, env) ==
    LET c == Ok(config)
        app == Get(c, "app", Dict(EmptyDict))
        data == Get(c, "data", Dict(EmptyDict))
        trading == Get(c, "trading", Dict(EmptyDict))
        risk == Get(trading, "risk", Dict(EmptyDict))
        name == getenv(env, v_APP_NAME, Get(app, "name", None))
        level == getenv(env, v_LOG_LEVEL, Get(app, "log_level", None))
        provs == ProvidersOverride(env, Get(data, "providers", List(<<>>)))
        redis == getenv(env, v_REDIS_URL,
                        Get(Get(data, "cache", Dict(EmptyDict)), "redis_url", None))
        markets == MarketsOf(getenv(env, v_MARKETS,
                                    Get(trading, "markets", List(<<>>))))
        mps == ConvFloat(getenv(env, v_MAX_POSITION_SIZE,
                           Get(trading, "max_position_size", Num(10))))
        mdd == ConvFloat(getenv(env, v_MAX_DRAWDOWN,
                           Get(risk, "max_drawdown", Num(20))))
        varl == ConvFloat(getenv(env, v_VAR_LIMIT,
                            Get(risk, "var_limit", Num(5))))
        lat == ConvInt(getenv(env, v_MAX_LATENCY_MS,
                           Get(risk, "max_latency_ms", Num(100000))))
        e == FirstErr(<<name.err, level.err, provs.err, redis.err, markets.err,
                        mps.err, mdd.err, varl.err, lat.err>>)
    IN IF e # "none" THEN Raise(e)
       ELSE Ok(Dict(
            ("app" :> Dict(("name" :> name.v) @@ ("log_level" :> level.v)))
         @@ ("data" :> Dict(("providers" :> provs.v)
                         @@ ("cache" :> Dict(("redis_url" :> redis.v)))))
         @@ ("trading" :> Dict(("markets" :> markets.v)
                            @@ ("max_position_size" :> mps.v)
                            @@ ("risk" :> Dict(("max_drawdown" :> mdd.v)
                                            @@ ("var_limit" :> varl.v)
                                            @@ ("max_latency_ms" :> lat.v)))))))

----------------------------------------------------------------------------
(* Schema validation: the pydantic models of Settings.                     *)

valid_providers == {s_alpaca, s_binance, s_oanda, s_polygon, s_csv}

valid_markets == {s_stocks, s_crypto, s_forex, s_commodities}

valid_levels == {s_DEBUG, s_INFO, s_WARNING, s_ERROR, s_CRITICAL}

SettingsFields == {"app", "data", "trading", "strategies", "rules"}

IsStr(v) == v.k = "str"

OptStr(v) == v.k \in {"str", "none"}

Has(v, key) == v.k = "dict" /\ key \in DOMAIN v.d

\* Field(..., gt=0, le=1) on a float, in hundredths
InUnitRange(v) == v.k = "num" /\ v.n > 0 /\ v.n <= 100

\* class Config: extra = "forbid"
NoExtraKeys(c) == DOMAIN c \subseteq SettingsFields

\* validate_log_level
LogLevelOk(v) == IsStr(v) /\ v.s \in valid_levels

\* AppConfig: name: str, log_level: str with its validator; every field is
\* present in the tree, None being no str.
AppOk(a) ==
    /\ Has(a, "name") /\ IsStr(a.d["name"])
    /\ Has(a, "log_level") /\ LogLevelOk(a.d["log_level"])

\* validate_provider_name, with min_length=1
ProviderNameOk(v) == IsStr(v) /\ Len(v.s) >= 1 /\ v.s \in valid_providers

\* DataProviderConfig
ProviderOk(p) ==
    /\ Has(p, "name") /\ ProviderNameOk(p.d["name"])
    /\ Has(p, "endpoint") /\ IsStr(p.d["endpoint"])
    /\ Has(p, "api_key") => OptStr(p.d["api_key"])
    /\ Has(p, "secret_key") => OptStr(p.d["secret_key"])

\* DataConfig and CacheConfig
DataOk(d) ==
    /\ Has(d, "providers") /\ d.d["providers"].k = "list"
    /\ \A i \in 1..Len(d.d["providers"].l) : ProviderOk(d.d["providers"].l[i])
    /\ Has(d, "cache")
    /\ Has(d.d["cache"], "redis_url") => IsStr(d.d["cache"].d["redis_url"])

\* validate_markets
MarketsOk(v) ==
    /\ v.k = "list"
    /\ \A i \in 1..Len(v.l) : IsStr(v.l[i]) /\ v.l[i].s \in valid_markets

\* C5 mutant: le=1 is left out of max_drawdown.
RiskOk_nole(r) ==
    /\ Has(r, "max_drawdown") /\ r.d["max_drawdown"].k = "num"
    /\ r.d["max_drawdown"].n > 0
    /\ Has(r, "var_limit") /\ InUnitRange(r.d["var_limit"])
    /\ Has(r, "max_latency_ms") => r.d["max_latency_ms"].k \in {"num", "none"}

\* RiskConfig
RiskOk(r) ==
    /\ Has(r, "max_drawdown") /\ InUnitRange(r.d["max_drawdown"])
    /\ Has(r, "var_limit") /\ InUnitRange(r.d["var_limit"])
    /\ Has(r, "max_latency_ms") => r.d["max_latency_ms"].k \in {"num", "none"}

\* TradingConfig
TradingOk(t) ==
    /\ Has(t, "markets") /\ MarketsOk(t.d["markets"])
    /\ Has(t, "max_position_size") /\ InUnitRange(t.d["max_position_size"])
    /\ Has(t, "risk") /\ RiskOk(t.d["risk"])

\* Settings(**config): every model validates or construction raises
SettingsValid(c) ==
    /\ NoExtraKeys(c)
    /\ "app" \in DOMAIN c /\ AppOk(c["app"])
    /\ "data" \in DOMAIN c /\ DataOk(c["data"])
    /\ "trading" \in DOMAIN c /\ TradingOk(c["trading"])

----------------------------------------------------------------------------
(* load_strategy_configs / load_rules_configs.  A directory is absent or   *)
(* holds files by stem; a file also says whether the record class of       *)
(* core.types accepts its section.                                         *)

NoDir == [exists |-> FALSE, files |-> <<>>]

Dir(files) == [exists |-> TRUE, files |-> files]

SubFile(file, accepted) == [file |-> file, accepted |-> accepted]

\* StrategyConfig(**section) / RiskPolicy(**section)
SchemaAccepts(f) == f.accepted

\* what loading one globbed file does: the exception raised, or NoErr
LoadOne(f, path, section) ==
    LET data == load_yaml(f.file, path)
    IN IF data.err.type # "none" THEN data.err
       ELSE IF data.v.k \notin {"dict"} THEN Exc("TypeError", NoPath)
       ELSE IF section \notin DOMAIN data.v.d THEN Exc("KeyError", NoPath)
       ELSE IF data.v.d[section].k # "dict" THEN Exc("TypeError", NoPath)
       ELSE IF ~SchemaAccepts(f) THEN Exc("ValueError", NoPath)
       ELSE NoErr

\* the files dir.glob("*.yaml") yields: none for an absent directory
Globbed(dir) == IF dir.exists THEN DOMAIN dir.files ELSE {}

\* The outcomes of a loader: glob yields the files in no set order, so any
\* offending file may be the one met first; without one, every file gives
\* a record keyed by its stem.
LoadDir(dir, dirname, section) ==
    LET bad == {st \in Globbed(dir) :
                   LoadOne(dir.files[st], <<"configs", dirname, st, ".yaml">>,
                           section).type # "none"}
    IN IF bad = {}
       THEN {[err |-> NoErr,
              v |-> Dict([st \in Globbed(dir) |->
                             load_yaml(dir.files[st].file, NoPath).v.d[section]])]}
       ELSE {[err |-> LoadOne(dir.files[st], <<"configs", dirname, st, ".yaml">>,
                              section),
              v |-> None] : st \in bad}

load_strategy_configs(dir) == LoadDir(dir, "strategies", "strategy")

load_rules_configs(dir) == LoadDir(dir, "rules", "risk")

----------------------------------------------------------------------------
(* get_settings *)

Environment == {"dev", "prod"}

DefaultPath == <<"configs", "default.yaml">>

EnvPath(e) == <<"configs", e, ".yaml">>

NoRun == [env |-> "", dflt |-> None, envc |-> None, base |-> None,
          override |-> None, config |-> None, err |-> NoErr]

\* The runs get_settings(e) can make in world w: what each step produced
\* (None for the steps not reached) and the exception raised (NoErr when a
\* Settings is returned, built from config).
get_settings(w, e) ==
    LET r0 == [NoRun EXCEPT !.env = e]
        d == load_yaml(w.dflt, DefaultPath)
    IN IF d.err.type # "none" THEN {[r0 EXCEPT !.err = d.err]} ELSE
    LET r1 == [r0 EXCEPT !.dflt = d.v]
        ev == load_yaml(w.envf[e], EnvPath(e))
    IN IF ev.err.type # "none" THEN {[r1 EXCEPT !.err = ev.err]} ELSE
    LET r2 == [r1 EXCEPT !.envc = ev.v]
        m1 == merge_values(d.v, ev.v)
    IN IF m1.err # "none" THEN {[r2 EXCEPT !.err = Exc(m1.err, NoPath)]} ELSE
    LET r3 == [r2 EXCEPT !.base = m1.v]
        o == build_override(m1.v, w.environ)
    IN IF o.err # "none" THEN {[r3 EXCEPT !.err = Exc(o.err, NoPath)]} ELSE
    LET r4 == [r3 EXCEPT !.override = o.v]
        m2 == merge_values(m1.v, o.v)
    IN IF m2.err # "none" THEN {[r4 EXCEPT !.err = Exc(m2.err, NoPath)]} ELSE
    {IF so.err.type # "none" THEN [r4 EXCEPT !.err = so.err]
     ELSE IF ro.err.type # "none" THEN [r4 EXCEPT !.err = ro.err]
     ELSE LET c == ("strategies" :> so.v) @@ ("rules" :> ro.v) @@ m2.v.d
          IN [r4 EXCEPT !.config = Dict(c),
                        !.err = IF SettingsValid(c) THEN NoErr
                                ELSE Exc("ValueError", NoPath)] :
     so \in load_strategy_configs(w.sdir), ro \in load_rules_configs(w.rdir)}

----------------------------------------------------------------------------
(* The world get_settings reads: documents, directories, variables.        *)

s_traderai == <<"t", "r", "a", "d", "e", "r", "a", "i">>

s_url == <<"u", "r", "l">>

ValidApp == Dict(("name" :> Str(s_traderai)) @@ ("log_level" :> Str(s_INFO)))

ValidProvider == Dict(("name" :> Str(s_alpaca)) @@ ("endpoint" :> Str(s_url)))

ValidData ==
    Dict(("providers" :> List(<<ValidProvider>>))
      @@ ("cache" :> Dict(("redis_url" :> Str(s_url)))))

ValidRisk ==
    Dict(("max_drawdown" :> Num(20)) @@ ("var_limit" :> Num(5))
      @@ ("max_latency_ms" :> Num(50000)))

ValidTrading ==
    Dict(("markets" :> List(<<Str(s_stocks), Str(s_crypto)>>))
      @@ ("max_position_size" :> Num(10))
      @@ ("risk" :> ValidRisk))

ValidDoc ==
    Dict(("app" :> ValidApp) @@ ("data" :> ValidData) @@ ("trading" :> ValidTrading))

\* markets: stocks,forex  (a plain YAML scalar)
DocMarketsStr ==
    [ValidDoc EXCEPT !.d["trading"].d["markets"] =
        Str(s_stocks \o <<Comma>> \o s_forex)]

\* foo: bar at top level
DocExtraKey == Dict(("foo" :> Str(<<"b", "a", "r">>)) @@ DocMarketsStr.d)

DocFtx ==
    [DocMarketsStr EXCEPT !.d["data"].d["providers"] =
        List(<<Dict(("name" :> Str(s_ftx)) @@ ("endpoint" :> Str(s_url)))>>)]

\* max_drawdown: 1.5
DocDrawdownHigh ==
    [DocMarketsStr EXCEPT !.d["trading"].d["risk"].d["max_drawdown"] = Num(150)]

\* app: traderai (a scalar where a mapping is expected)
DocAppScalar == [DocMarketsStr EXCEPT !.d["app"] = Str(s_traderai)]

DefaultFiles ==
    {MissingFile, MalformedFile, YamlFile(None), YamlFile(ValidDoc),
     YamlFile(DocMarketsStr), YamlFile(DocExtraKey), YamlFile(DocFtx),
     YamlFile(DocDrawdownHigh), YamlFile(DocAppScalar)}

EnvDebug == Dict(("app" :> Dict(("log_level" :> Str(s_DEBUG)))))

EnvDrawdownOne ==
    Dict(("trading" :> Dict(("risk" :> Dict(("max_drawdown" :> Num(100)))))))

EnvDrawdownZero ==
    Dict(("trading" :> Dict(("risk" :> Dict(("max_drawdown" :> Num(0)))))))

EnvFiles ==
    {MissingFile, MalformedFile, YamlFile(EnvDebug), YamlFile(EnvDrawdownOne),
     YamlFile(EnvDrawdownZero)}

v_ALPACA_API_KEY == str_upper(s_alpaca) \o x_API_KEY

v_ALPACA_SECRET_KEY == str_upper(s_alpaca) \o x_SECRET_KEY

\* the values a variable is set to here
EnvChoices ==
    (v_APP_NAME :> {<<"x">>})
 @@ (v_LOG_LEVEL :> {s_DEBUG, s_TRACE})
 @@ (v_REDIS_URL :> {<<"r">>})
 @@ (v_MARKETS :> {s_stocks \o <<Comma>> \o s_crypto, s_bonds})
 @@ (v_MAX_POSITION_SIZE :> {<<"0", ".", "5">>, <<"1", ".", "5">>, <<"a", "b", "c">>})
 @@ (v_MAX_DRAWDOWN :> {<<"1", ".", "0">>, <<"0">>})
 @@ (v_VAR_LIMIT :> {<<"0", ".", "0", "5">>, <<"2">>})
 @@ (v_MAX_LATENCY_MS :> {<<"5", "0", "0">>, <<"5", ".", "5">>})
 @@ (v_ALPACA_API_KEY :> {<<"k">>})
 @@ (v_ALPACA_SECRET_KEY :> {<<"s">>})

EnvNames == DOMAIN EnvChoices

SectionDoc(section) == Dict((section :> Dict(("name" :> Str(<<"m">>)))))

NoSectionDoc == Dict(("other" :> Num(100)))

StrategyDirs ==
    {NoDir, Dir(<<>>),
     Dir(("s1" :> SubFile(YamlFile(SectionDoc("strategy")), TRUE))),
     Dir(("s1" :> SubFile(YamlFile(SectionDoc("strategy")), FALSE))),
     Dir(("s1" :> SubFile(YamlFile(NoSectionDoc), TRUE))),
     Dir(("s1" :> SubFile(MalformedFile, TRUE))),
     Dir(("s1" :> SubFile(YamlFile(SectionDoc("strategy")), TRUE))
      @@ ("s2" :> SubFile(YamlFile(NoSectionDoc), TRUE)))}

RulesDirs ==
    {NoDir,
     Dir(("r1" :> SubFile(YamlFile(SectionDoc("risk")), TRUE))),
     Dir(("r1" :> SubFile(YamlFile(None), TRUE)))}

\* nothing on disk, nothing in the environment
BareWorld ==
    [dflt |-> MissingFile,
     envf |-> [e \in Environment |-> MissingFile],
     environ |-> [n \in EnvNames |-> Unset],
     sdir |-> NoDir,
     rdir |-> NoDir]

\* a complete default.yaml, one strategy, one rule, MARKETS set
FullWorld ==
    [dflt |-> YamlFile(ValidDoc),
     envf |-> [e \in Environment |-> MissingFile],
     environ |-> [n \in EnvNames |->
                     IF n = v_MARKETS THEN Str(s_stocks \o <<Comma>> \o s_crypto)
                     ELSE Unset],
     sdir |-> Dir(("s1" :> SubFile(YamlFile(SectionDoc("strategy")), TRUE))),
     rdir |-> Dir(("r1" :> SubFile(YamlFile(SectionDoc("risk")), TRUE)))]

----------------------------------------------------------------------------
(* init_settings, statement by statement, for each calling thread.         *)

MaxEdits == 2

MaxCalls == 2

MaxConcEdits == 1

MaxConcCalls == 1

Threads == {"t1", "t2"}

\* a Settings object: the run that built it and the tree it was built from
Instance(id, cfg) == [k |-> "settings", id |-> id, cfg |-> cfg]

\* the accessor's variables while only the merger is exercised
AccIdle ==
    /\ world = BareWorld
    /\ settings = None
    /\ pc = [t \in Threads |-> "off"]
    /\ arg = [t \in Threads |-> "dev"]
    /\ loc = [t \in Threads |-> None]
    /\ ret = [t \in Threads |-> None]
    /\ exc = [t \in Threads |-> NoErr]
    /\ calls = [t \in Threads |-> 0]
    /\ run = NoRun
    /\ fresh = FALSE
    /\ nruns = 0
    /\ returned = {}
    /\ edits = 0
    /\ lim = [edits |-> 0, calls |-> 0, wide |-> FALSE, late |-> FALSE]

MergeIdle ==
    /\ heap = <<>>
    /\ mbase = 0
    /\ mover = 0
    /\ mres = None
    /\ mstate = "unused"

\* the module has been imported: settings = None
InitAcc(ts, l) ==
    /\ MergeIdle
    /\ world \in {BareWorld, FullWorld}
    /\ settings = None
    /\ pc = [t \in Threads |-> IF t \in ts THEN "idle" ELSE "off"]
    /\ arg = [t \in Threads |-> "dev"]
    /\ loc = [t \in Threads |-> None]
    /\ ret = [t \in Threads |-> None]
    /\ exc = [t \in Threads |-> NoErr]
    /\ calls = [t \in Threads |-> 0]
    /\ run = NoRun
    /\ fresh = FALSE
    /\ nruns = 0
    /\ returned = {}
    /\ edits = 0
    /\ lim = l

\* init_settings(e) is called
Call(t, e) ==
    /\ pc[t] = "idle"
    /\ calls[t] < lim.calls
    /\ pc' = [pc EXCEPT ![t] = "check"]
    /\ arg' = [arg EXCEPT ![t] = e]
    /\ ret' = [ret EXCEPT ![t] = None]
    /\ exc' = [exc EXCEPT ![t] = NoErr]
    /\ calls' = [calls EXCEPT ![t] = @ + 1]
    /\ UNCHANGED <<world, settings, loc, run, fresh, nruns, returned, edits, lim>>

\* C1 mutant: the cache is used only for the environment it was built for.
CacheMiss_perenv(t) == settings = None \/ run.env # arg[t]

\* C9 mutant: a thread that finds another one initialising does not start
\* a second initialisation.
CheckTarget_guarded(t) ==
    IF settings = None /\ \A u \in Threads \ {t} : pc[u] \notin {"run", "store"}
    THEN "run" ELSE "ret"

\* `if settings is None:`
CacheMiss(t) == settings = None

\* where the test sends the thread: into the body or to `return settings`
CheckTarget(t) == IF CacheMiss(t) THEN "run" ELSE "ret"

Check(t) ==
    /\ pc[t] = "check"
    /\ pc' = [pc EXCEPT ![t] = CheckTarget(t)]
    /\ UNCHANGED <<world, settings, arg, loc, ret, exc, calls, run, fresh,
                   nruns, returned, edits, lim>>

\* C10 mutant: the tree is cached before it is validated.
CacheAfterRun_early(t, r) == IF r.config # None THEN Instance(0, r.config) ELSE settings

\* what the global holds once get_settings(env) has returned or raised:
\* the assignment has not happened yet in either case
CacheAfterRun(t, r) == settings

\* get_settings(env) runs; an exception leaves init_settings at once
GetSettings(t) ==
    /\ pc[t] = "run"
    /\ \E r \in get_settings(world, arg[t]) :
          /\ run' = r
          /\ settings' = CacheAfterRun(t, r)
          /\ IF r.err = NoErr
             THEN /\ loc' = [loc EXCEPT ![t] = Instance(nruns + 1, r.config)]
                  /\ pc' = [pc EXCEPT ![t] = "store"]
                  /\ exc' = exc
             ELSE /\ loc' = loc
                  /\ pc' = [pc EXCEPT ![t] = "idle"]
                  /\ exc' = [exc EXCEPT ![t] = r.err]
    /\ fresh' = TRUE
    /\ nruns' = nruns + 1
    /\ UNCHANGED <<world, arg, ret, calls, returned, edits, lim>>

\* `settings = ...`
Store(t) ==
    /\ pc[t] = "store"
    /\ settings' = loc[t]
    /\ pc' = [pc EXCEPT ![t] = "ret"]
    /\ UNCHANGED <<world, arg, loc, ret, exc, calls, run, fresh, nruns,
                   returned, edits, lim>>

\* `return settings`: the global is read again
Return(t) ==
    /\ pc[t] = "ret"
    /\ ret' = [ret EXCEPT ![t] = settings]
    /\ returned' = returned \cup (IF settings = None THEN {} ELSE {settings.id})
    /\ pc' = [pc EXCEPT ![t] = "idle"]
    /\ UNCHANGED <<world, settings, arg, loc, exc, calls, run, fresh, nruns,
                   edits, lim>>

----------------------------------------------------------------------------
(* Changes of the world by its owner, at any time.                         *)

\* the choices of an exploration: all of them, or a few of each kind
Pick(all, few) == IF lim.wide THEN all ELSE few

\* lim.late: the world may change once the first call has begun
EditAllowed ==
    /\ edits < lim.edits
    /\ lim.late \/ (nruns = 0 /\ \A t \in Threads : calls[t] = 0)

Edit(w) ==
    /\ EditAllowed
    /\ w # world
    /\ world' = w
    /\ edits' = edits + 1
    /\ fresh' = FALSE
    /\ UNCHANGED <<settings, pc, arg, loc, ret, exc, calls, run, nruns,
                   returned, lim>>

SetEnv == \E n \in Pick(EnvNames, {v_LOG_LEVEL}) : \E v \in EnvChoices[n] :
    Edit([world EXCEPT !.environ[n] = Str(v)])

UnsetEnv == \E n \in EnvNames : Edit([world EXCEPT !.environ[n] = Unset])

WriteDefault ==
    \E f \in Pick(DefaultFiles, {MissingFile, YamlFile(DocMarketsStr)}) :
        Edit([world EXCEPT !.dflt = f])

WriteEnvFile == \E e \in Environment : \E f \in Pick(EnvFiles, {MalformedFile, YamlFile(EnvDebug)}) :
    Edit([world EXCEPT !.envf[e] = f])

WriteStrategies == \E d \in Pick(StrategyDirs, {NoDir}) :
    Edit([world EXCEPT !.sdir = d])

WriteRules == \E d \in Pick(RulesDirs, {NoDir}) : Edit([world EXCEPT !.rdir = d])

Next ==
    \/ \E t \in Threads, e \in Environment : Call(t, e) /\ UNCHANGED mergeVars
    \/ \E t \in Threads : Check(t) /\ UNCHANGED mergeVars
    \/ \E t \in Threads : GetSettings(t) /\ UNCHANGED mergeVars
    \/ \E t \in Threads : Store(t) /\ UNCHANGED mergeVars
    \/ \E t \in Threads : Return(t) /\ UNCHANGED mergeVars
    \/ SetEnv /\ UNCHANGED mergeVars
    \/ UnsetEnv /\ UNCHANGED mergeVars
    \/ WriteDefault /\ UNCHANGED mergeVars
    \/ WriteEnvFile /\ UNCHANGED mergeVars
    \/ WriteStrategies /\ UNCHANGED mergeVars
    \/ WriteRules /\ UNCHANGED mergeVars

\* one caller, calls in sequence, the world changing at any time
Init ==
    InitAcc({"t1"}, [edits |-> MaxEdits, calls |-> MaxCalls,
                     wide |-> FALSE, late |-> TRUE])

Spec == Init /\ [][Next]_vars

\* two threads calling concurrently
InitConc ==
    InitAcc(Threads, [edits |-> MaxConcEdits, calls |-> MaxConcCalls,
                      wide |-> FALSE, late |-> TRUE])

SpecConc == InitConc /\ [][Next]_vars

\* the pipeline over many worlds: the world is set up, then one caller calls
InitPipe ==
    InitAcc({"t1"}, [edits |-> MaxEdits, calls |-> MaxCalls,
                     wide |-> TRUE, late |-> FALSE])

SpecPipe == InitPipe /\ [][Next]_vars

----------------------------------------------------------------------------
(* Inputs of the merger: trees over two keys with at most MaxEntries       *)
(* key/value pairs in all, nested mappings included.  Base leaves and      *)
(* override leaves differ, so that the side a value came from is visible.  *)

MaxEntries == 3

MergeKeys == {"a", "b"}

BaseLeaves == {Num(1), List(<<Num(1)>>)}

OverLeaves == {Num(2), List(<<Num(2)>>)}

RECURSIVE DictsOf(_, _)
ValsOf(n, leaves) ==
    IF n = 0 THEN leaves \cup {Dict(EmptyDict)}
    ELSE {Dict(d) : d \in DictsOf(n, leaves)}

\* the dicts holding exactly n key/value pairs, nested ones included
DictsOf(n, leaves) ==
    IF n = 0 THEN {EmptyDict}
    ELSE {(key :> v) : key \in MergeKeys, v \in ValsOf(n - 1, leaves)}
         \cup (IF n < 2 THEN {}
               ELSE UNION {{("a" :> va) @@ ("b" :> vb) :
                               va \in ValsOf(i, leaves),
                               vb \in ValsOf(n - 2 - i, leaves)} :
                           i \in 0..(n - 2)})

TreesOf(leaves) == UNION {DictsOf(n, leaves) : n \in 0..MaxEntries}

InitMerge ==
    \E b \in TreesOf(BaseLeaves), o \in TreesOf(OverLeaves) :
        LET ab == Alloc(<<>>, Dict(b))
            ao == Alloc(ab.h, Dict(o))
        IN /\ heap = ao.h
           /\ mbase = ab.v.a
           /\ mover = ao.v.a
           /\ mres = None
           /\ mstate = "ready"
           /\ AccIdle

\* result = merge_configs(base, override)
MergeCall ==
    /\ mstate = "ready"
    /\ LET m == merge_configs(heap, Ref(mbase), mover)
       IN /\ heap' = m.h
          /\ mres' = m.v
          /\ mstate' = IF m.err = "none" THEN "returned" ELSE m.err
    /\ UNCHANGED <<mbase, mover>>
    /\ UNCHANGED accVars

NextMerge == MergeCall

SpecMerge == InitMerge /\ [][NextMerge]_vars

----------------------------------------------------------------------------
(* Properties *)

Absent == [k |-> "absent"]

RECURSIVE At(_, _)
\* the value at a path of keys, Absent when a key is missing on the way
At(v, path) ==
    IF path = <<>> THEN v
    ELSE IF v.k = "dict" /\ Head(path) \in DOMAIN v.d
    THEN At(v.d[Head(path)], Tail(path))
    ELSE Absent

\* get_settings has run in the world as it is now, as far as building the
\* tree handed to Settings
Validated == fresh /\ nruns > 0 /\ run.config # None

\* ... as far as building the override tree
Overridden == fresh /\ nruns > 0 /\ run.override # None

EnvVal(n) == world.environ[n]

\* C1: in a sequence of init_settings calls, once a call has returned a
\* Settings instance, no later step runs get_settings again and no call
\* returns any other instance, whatever the Environment argument and
\* whatever has changed in the files or the environment.
C1_CachedInstanceReturned ==
    [][returned # {} => (nruns' = nruns /\ returned' = returned)]_vars

\* C1 witness: a second call, made with another Environment than the one
\* the instance was built for and after the world changed, has returned the
\* instance of the only run.
C1_Witness ==
    /\ calls["t1"] = 2 /\ pc["t1"] = "idle"
    /\ nruns = 1 /\ ret["t1"] # None /\ ret["t1"].id = 1
    /\ arg["t1"] # run.env
    /\ ~fresh

RECURSIVE ClaimedMerge(_, _)
\* the merge of C2: recursion only where both sides hold a mapping, the
\* override's value otherwise, base-only keys kept
ClaimedMerge(b, o) ==
    [key \in DOMAIN b \cup DOMAIN o |->
        IF key \notin DOMAIN o THEN b[key]
        ELSE IF o[key].k = "dict" /\ key \in DOMAIN b /\ b[key].k = "dict"
        THEN Dict(ClaimedMerge(b[key].d, o[key].d))
        ELSE o[key]]

\* C2: for every base and override tree merge_configs returns the tree that
\* merges recursively where both values are mappings and takes the
\* override's value everywhere else, a mapping over a scalar or a list
\* included.
C2_MergeAsClaimed ==
    mstate \notin {"ready", "unused"} =>
        /\ mstate = "returned"
        /\ Deref(heap, mres) =
              Dict(ClaimedMerge(Deref(heap, Ref(mbase)).d, Deref(heap, Ref(mover)).d))

\* C3: every recognised variable that is set is found, parsed, at its
\* target field of the tree handed to validation, whatever the YAML files
\* say; MARKETS=stocks,crypto gives [stocks, crypto].
C3_EnvVarsTakePrecedence ==
    Validated =>
        LET c == run.config
            bp == At(run.base, <<"data", "providers">>)
            cp == At(c, <<"data", "providers">>)
        IN /\ IsSet(world.environ, v_APP_NAME) =>
                 At(c, <<"app", "name">>) = EnvVal(v_APP_NAME)
           /\ IsSet(world.environ, v_LOG_LEVEL) =>
                 At(c, <<"app", "log_level">>) = EnvVal(v_LOG_LEVEL)
           /\ IsSet(world.environ, v_REDIS_URL) =>
                 At(c, <<"data", "cache", "redis_url">>) = EnvVal(v_REDIS_URL)
           /\ IsSet(world.environ, v_MARKETS) =>
                 LET parts == str_split(EnvVal(v_MARKETS).s)
                 IN At(c, <<"trading", "markets">>) =
                       List([i \in 1..Len(parts) |-> Str(parts[i])])
           /\ EnvVal(v_MARKETS) = Str(s_stocks \o <<",">> \o s_crypto) =>
                 At(c, <<"trading", "markets">>) =
                    List(<<Str(s_stocks), Str(s_crypto)>>)
           /\ IsSet(world.environ, v_MAX_POSITION_SIZE) =>
                 At(c, <<"trading", "max_position_size">>) =
                    Num(parse_float(EnvVal(v_MAX_POSITION_SIZE).s).n)
           /\ IsSet(world.environ, v_MAX_DRAWDOWN) =>
                 At(c, <<"trading", "risk", "max_drawdown">>) =
                    Num(parse_float(EnvVal(v_MAX_DRAWDOWN).s).n)
           /\ IsSet(world.environ, v_VAR_LIMIT) =>
                 At(c, <<"trading", "risk", "var_limit">>) =
                    Num(parse_float(EnvVal(v_VAR_LIMIT).s).n)
           /\ IsSet(world.environ, v_MAX_LATENCY_MS) =>
                 At(c, <<"trading", "risk", "max_latency_ms">>) =
                    Num(parse_int(EnvVal(v_MAX_LATENCY_MS).s).n)
           /\ bp.k = "list" =>
                 \A i \in 1..Len(bp.l) :
                    LET up == str_upper(bp.l[i].d["name"].s)
                    IN /\ IsSet(world.environ, up \o x_API_KEY) =>
                             At(cp.l[i], <<"api_key">>) = EnvVal(up \o x_API_KEY)
                       /\ IsSet(world.environ, up \o x_SECRET_KEY) =>
                             At(cp.l[i], <<"secret_key">>) = EnvVal(up \o x_SECRET_KEY)

\* C3 witness: a tree was handed to validation with LOG_LEVEL and MARKETS
\* set, each to something else than the YAML value of its field.
C3_Witness ==
    /\ Validated
    /\ IsSet(world.environ, v_LOG_LEVEL)
    /\ At(run.base, <<"app", "log_level">>) \notin {Absent, EnvVal(v_LOG_LEVEL)}
    /\ EnvVal(v_MARKETS) = Str(s_stocks \o <<",">> \o s_crypto)
    /\ At(run.base, <<"trading", "markets">>) = Str(s_stocks \o <<",">> \o s_forex)
    /\ At(run.config, <<"trading", "markets">>) = List(<<Str(s_stocks), Str(s_crypto)>>)

\* the fallback of C4 for an unset variable: the base tree's value at the
\* field when it has one, the literal default of the code otherwise
Fallback(path, literal) ==
    IF At(run.base, path) # Absent THEN At(run.base, path) ELSE literal

\* C4: for every recognised variable that is unset the override tree holds
\* the base tree's value at the target field (the literal default when the
\* base has none); for trading.markets too: a base list of markets is that
\* same list after the override.
C4_UnsetKeepsBaseValue ==
    Overridden =>
        LET o == run.override
        IN /\ ~IsSet(world.environ, v_APP_NAME) =>
                 At(o, <<"app", "name">>) = Fallback(<<"app", "name">>, None)
           /\ ~IsSet(world.environ, v_LOG_LEVEL) =>
                 At(o, <<"app", "log_level">>) = Fallback(<<"app", "log_level">>, None)
           /\ ~IsSet(world.environ, v_REDIS_URL) =>
                 At(o, <<"data", "cache", "redis_url">>) =
                    Fallback(<<"data", "cache", "redis_url">>, None)
           /\ ~IsSet(world.environ, v_MAX_POSITION_SIZE) =>
                 At(o, <<"trading", "max_position_size">>) =
                    Fallback(<<"trading", "max_position_size">>, Num(10))
           /\ ~IsSet(world.environ, v_MAX_DRAWDOWN) =>
                 At(o, <<"trading", "risk", "max_drawdown">>) =
                    Fallback(<<"trading", "risk", "max_drawdown">>, Num(20))
           /\ ~IsSet(world.environ, v_VAR_LIMIT) =>
                 At(o, <<"trading", "risk", "var_limit">>) =
                    Fallback(<<"trading", "risk", "var_limit">>, Num(5))
           /\ ~IsSet(world.environ, v_MAX_LATENCY_MS) =>
                 At(o, <<"trading", "risk", "max_latency_ms">>) =
                    Fallback(<<"trading", "risk", "max_latency_ms">>, Num(100000))
           /\ ~IsSet(world.environ, v_MARKETS) =>
                 At(o, <<"trading", "markets">>) =
                    Fallback(<<"trading", "markets">>, List(<<>>))

\* the constraints C5 lists, on the tree handed to validation
C5_Constraints(c) ==
    /\ DOMAIN c.d \subseteq {"app", "data", "trading", "strategies", "rules"}
    /\ LET ps == At(c, <<"data", "providers">>)
       IN \A i \in 1..Len(ps.l) :
             At(ps.l[i], <<"name">>) \in
                {Str(s_alpaca), Str(s_binance), Str(s_oanda), Str(s_polygon), Str(s_csv)}
    /\ At(c, <<"app", "log_level">>) \in
          {Str(s_DEBUG), Str(s_INFO), Str(s_WARNING), Str(s_ERROR), Str(s_CRITICAL)}
    /\ LET ms == At(c, <<"trading", "markets">>)
       IN \A i \in 1..Len(ms.l) :
             ms.l[i] \in {Str(s_stocks), Str(s_crypto), Str(s_forex), Str(s_commodities)}
    /\ \A path \in {<<"trading", "risk", "max_drawdown">>,
                    <<"trading", "risk", "var_limit">>,
                    <<"trading", "max_position_size">>} :
          At(c, path).n > 0 /\ At(c, path).n <= 100

\* C5: get_settings returns a Settings only if the tree satisfies every
\* listed constraint; when one is violated the construction raises the
\* validation error and no Settings is returned or cached.
C5_AllOrNothing ==
    (fresh /\ nruns > 0) =>
        /\ run.err = NoErr => (run.config # None /\ C5_Constraints(run.config))
        /\ (run.config # None /\ ~C5_Constraints(run.config)) =>
              /\ run.err = Exc("ValueError", NoPath)
              /\ settings = None
              /\ \A t \in Threads : ret[t] = None /\ pc[t] \notin {"store", "ret"}

\* C5 witness: a tree whose only fault is max_drawdown = 1.5 was refused.
C5_Witness ==
    /\ Validated
    /\ At(run.config, <<"trading", "risk", "max_drawdown">>) = Num(150)
    /\ C5_Constraints([run.config EXCEPT
                          !.d["trading"].d["risk"].d["max_drawdown"] = Num(100)])
    /\ run.err = Exc("ValueError", NoPath)
    /\ exc["t1"] = run.err

\* a failure of one of the kinds C6 lists is present in the world
FailurePresent ==
    \/ world.dflt.st = "malformed"
    \/ world.envf[run.env].st = "malformed"
    \/ \E n \in {v_MAX_POSITION_SIZE, v_MAX_DRAWDOWN, v_VAR_LIMIT} :
          IsSet(world.environ, n) /\ parse_float(EnvVal(n).s).err # "none"
    \/ IsSet(world.environ, v_MAX_LATENCY_MS)
          /\ parse_int(EnvVal(v_MAX_LATENCY_MS).s).err # "none"
    \/ \E st \in Globbed(world.sdir) :
          world.sdir.files[st].file.st = "ok"
          /\ At(world.sdir.files[st].file.doc, <<"strategy">>) = Absent
    \/ \E st \in Globbed(world.rdir) :
          world.rdir.files[st].file.st = "ok"
          /\ At(world.rdir.files[st].file.doc, <<"risk">>) = Absent
    \/ run.config # None /\ ~C5_Constraints(run.config)

\* C6: a missing file is read as the empty tree, so that two missing files
\* give an empty base tree and no error from loading; any other failure
\* reaches the caller of init_settings, who gets no Settings.
C6_OnlyMissingFileRecovered ==
    (fresh /\ nruns > 0) =>
        /\ world.dflt.st = "missing" => run.dflt = Dict(EmptyDict)
        /\ (world.dflt.st # "malformed" /\ world.envf[run.env].st = "missing") =>
              run.envc = Dict(EmptyDict)
        /\ (world.dflt.st = "missing" /\ world.envf[run.env].st = "missing") =>
              run.base = Dict(EmptyDict)
        /\ FailurePresent => run.err # NoErr
        /\ run.err # NoErr =>
              /\ settings = None
              /\ \A t \in Threads :
                    /\ ret[t] = None
                    /\ pc[t] = "idle" => exc[t] = run.err
                    /\ pc[t] \notin {"store", "ret"}

\* C6 witness: both YAML files are missing, the base tree is empty, and the
\* later validation failure has reached the caller.
C6_Witness ==
    /\ fresh /\ nruns > 0
    /\ world.dflt.st = "missing" /\ world.envf[run.env].st = "missing"
    /\ run.base = Dict(EmptyDict)
    /\ pc["t1"] = "idle" /\ exc["t1"] = run.err /\ run.err # NoErr
    /\ ret["t1"] = None

\* the strategy files that lack the `strategy` section
LackingStrategy ==
    {st \in Globbed(world.sdir) :
        /\ world.sdir.files[st].file.st = "ok"
        /\ At(world.sdir.files[st].file.doc, <<"strategy">>) = Absent}

\* C7: when a strategy file lacks its `strategy` section the loader fails
\* with a validation error that names the offending file.
C7_MissingSectionNamesFile ==
    (Overridden /\ LackingStrategy # {}) =>
        /\ run.err.type \in {"ConfigValidationError", "ValueError"}
        /\ run.err.file \in {<<"configs", "strategies", st, ".yaml">> :
                                st \in LackingStrategy}

\* C8: merge_configs leaves the base tree, and every mapping reachable from
\* it, as it was, and returns a top-level object that did not exist before.
C8_BaseNotMutated ==
    [][(mstate = "ready" /\ mstate' # "ready") =>
          /\ \A a \in Reach(heap, Ref(mbase)) : heap'[a] = heap[a]
          /\ Deref(heap', Ref(mbase)) = Deref(heap, Ref(mbase))
          /\ mres'.k = "ref" => mres'.a \notin 1..Len(heap)]_vars

RECURSIVE Depth(_)
\* nesting depth of a tree: 1 for a mapping of leaves
Depth(v) ==
    IF v.k # "dict" THEN 0
    ELSE IF DOMAIN v.d = {} THEN 1
    ELSE 1 + CHOOSE n \in {Depth(v.d[key]) : key \in DOMAIN v.d} :
                 \A key \in DOMAIN v.d : Depth(v.d[key]) <= n

\* C8 witness: a merge that recursed three levels deep has returned a tree
\* other than the base.
C8_Witness ==
    /\ mstate = "returned"
    /\ Depth(Deref(heap, Ref(mbase))) >= 3
    /\ Depth(Deref(heap, Ref(mover))) >= 3
    /\ Deref(heap, mres) # Deref(heap, Ref(mbase))
    /\ Depth(Deref(heap, mres)) >= 3

\* C9: nothing but the value of the global decides the check: a thread that
\* finds it unset goes on to get_settings whatever the other thread is
\* doing, a thread that finds it set does not; and whatever a call returns
\* is an instance one of the runs built.
C9_NoInitGuard ==
    /\ [][\A t \in Threads :
            (pc[t] = "check" /\ pc'[t] # "check") =>
                (pc'[t] = "run" <=> settings = None)]_vars
    /\ [](\A t \in Threads :
            (ret[t] # None => ret[t].id \in 1..nruns)
            /\ (pc[t] = "idle" /\ calls[t] > 0 /\ exc[t] = NoErr => ret[t] # None))

\* C9 witness: both threads called with the same Environment, both found
\* the cache unset, get_settings ran twice with the world changed in
\* between, and the two callers hold different Settings.
C9_Witness ==
    /\ \A t \in Threads : pc[t] = "idle" /\ calls[t] = 1 /\ ret[t] # None
    /\ arg["t1"] = arg["t2"]
    /\ nruns = 2 /\ edits = 1
    /\ ret["t1"].id # ret["t2"].id
    /\ ret["t1"].cfg # ret["t2"].cfg

\* C10: after a call in which get_settings raised, the global is still
\* None, every call made so far has run the pipeline, the run being made
\* with the Environment of the call it belongs to; and the global only ever
\* holds a Settings whose tree passed validation.
C10_FailedInitLeavesCacheUnset ==
    /\ exc["t1"] # NoErr => (settings = None /\ ret["t1"] = None)
    /\ (settings = None /\ pc["t1"] = "idle") => nruns = calls["t1"]
    /\ (exc["t1"] # NoErr \/ pc["t1"] = "store") => run.env = arg["t1"]
    /\ settings # None => (settings.k = "settings" /\ C5_Constraints(settings.cfg)
                           /\ settings.id \in 1..nruns)

\* C10 witness: with dev.yaml malformed from the start, the first call
\* (for dev) failed, and the second call, for prod, ran the pipeline again
\* for prod and returned the Settings it built.
C10_Witness ==
    /\ edits = 1 /\ world.envf["dev"].st = "malformed"
    /\ calls["t1"] = 2 /\ pc["t1"] = "idle"
    /\ nruns = 2 /\ run.env = "prod" /\ arg["t1"] = "prod"
    /\ settings # None /\ ret["t1"] = settings /\ settings.id = 2

====
